---- MODULE Spec2Model ----
(***************************************************************************)
(* A model of utils/__init__.py of timing_utils: the helper routines that  *)
(* load TOAs and a timing model, cut the TOA set, centre the model epochs, *)
(* write par/tim files and plot residuals.                                 *)
(*                                                                         *)
(* Python values: an optional value (None, or a missing flag) is a         *)
(* sequence of length at most one: <<>> is None, <<x>> is x.  A str is a   *)
(* TLA+ string.  A TOAs object is a record [table, table_selects]: the     *)
(* active rows and the stack of tables that select() pushed.               *)
(***************************************************************************)
EXTENDS Integers, Sequences, FiniteSets, TLC

VARIABLES
    toas,        \* the TOAs object: [table, table_selects]
    configDict,  \* the configuration read from yaml
    snr_cut,     \* the threshold handed to apply_snr_cut
    applied,     \* history: the calls made so far, [op, before, err, ...]
    restype,     \* plot_res: its restype argument
    pc,          \* plot_res / load_and_check: position in the running call
    obslist,     \* plot_res: list(fitter.toas.observatories)
    plotted,     \* plot_res: the elements drawn on the figure so far
    models,      \* the TimingModel objects, by object identity
    ret,         \* center_epochs / load_and_check: the value returned
    files,       \* the working directory: file name -> content
    today,       \* the calendar date, an index into Dates
    env,         \* load_and_check: what the files and the checks will find
    trace        \* load_and_check / check_fit: history of the steps run

vars == <<toas, configDict, snr_cut, applied, restype, pc, obslist, plotted,
          models, ret, files, today, env, trace>>

----------------------------------------------------------------------------
(* Bounds *)

MaxToas == 2
MaxCuts == 2
MaxFiles == 2
MaxCalls == 3

----------------------------------------------------------------------------
(* Python values *)

None == <<>>

Some(x) == <<x>>

\* bool(v) of an optional number: None and 0 are falsy
Truthy(v) == v # None /\ v[1] # 0

Last(s) == s[Len(s)]

Range(s) == {s[i] : i \in 1..Len(s)}

Max(S) == CHOOSE x \in S : \A y \in S : y <= x

Min(S) == CHOOSE x \in S : \A y \in S : x <= y

\* 'sub in s' for two str
InStr(sub, s) ==
    \E i \in 1..(Len(s) - Len(sub) + 1) : SubSeq(s, i, i + Len(sub) - 1) = sub

----------------------------------------------------------------------------
(* The TOAs object of the toolkit, as this module uses it *)

\* all sequences over S of length at most n
SeqsUpTo(S, n) == UNION {[1..k -> S] : k \in 0..n}

\* a TOA table of at most MaxToas rows; row i carries id i
TablesOver(mjds, snrs, sites) ==
    {[i \in 1..Len(t) |-> [id |-> i, mjd |-> t[i][1], snr |-> t[i][2], obs |-> t[i][3]]] :
        t \in SeqsUpTo(mjds \X snrs \X sites, MaxToas)}

\* table[mask]: the rows whose mask entry is True
Rows(table, mask) ==
    LET F[i \in 0..Len(table)] ==
            IF i = 0 THEN <<>>
            ELSE IF mask[i] THEN Append(F[i-1], table[i]) ELSE F[i-1]
    IN F[Len(table)]

\* toas.select(mask): keep the old table on the stack, then mask the table
select(t, mask) ==
    [table |-> Rows(t.table, mask),
     table_selects |-> Append(t.table_selects, t.table)]

\* toas.unselect(): back to the previous table; no change when there is none
unselect(t) ==
    IF t.table_selects = <<>> THEN t
    ELSE [table |-> Last(t.table_selects),
          table_selects |-> SubSeq(t.table_selects, 1, Len(t.table_selects) - 1)]

\* toas.get_mjds()
get_mjds(t) == [i \in 1..Len(t.table) |-> t.table[i].mjd]

\* toas.get_obss()
get_obss(t) == [i \in 1..Len(t.table) |-> t.table[i].obs]

\* toas.get_flag_value(flag): (values, with None where the flag is missing;
\* the indices, from 0, of the rows that carry the flag)
get_flag_value_snr(t) ==
    LET V[i \in 0..Len(t.table)] ==
            IF i = 0 THEN <<>>
            ELSE IF t.table[i].snr # None THEN Append(V[i-1], i - 1) ELSE V[i-1]
    IN <<[i \in 1..Len(t.table) |-> t.table[i].snr], V[Len(t.table)]>>

\* the table with no selection pushed
Unrestricted(t) == IF t.table_selects = <<>> THEN t.table ELSE t.table_selects[1]

RowSet(table) == Range(table)

----------------------------------------------------------------------------
(* apply_snr_cut *)

\* np.array((values, valid_index)) is a 2 x n array only when both lists
\* have n entries; a ragged pair cannot be compared with a float
IsRagged(pair) == Len(pair[1]) # Len(pair[2])

np_gt_mutated(pair, cut) ==
    <<[i \in 1..Len(pair[1]) |-> pair[1][i][1] >= cut],
      [i \in 1..Len(pair[2]) |-> pair[2][i] >= cut]>>

\* np.array(pair) > cut, elementwise over both rows
np_gt(pair, cut) ==
    <<[i \in 1..Len(pair[1]) |-> pair[1][i][1] > cut],
      [i \in 1..Len(pair[2]) |-> pair[2][i] > cut]>>

\* (np.array(toas.get_flag_value('snr')) > snr_cut)[0]
snr_mask(t, cut) == np_gt(get_flag_value_snr(t), cut)[1]

apply_snr_cut_unselect(t, cut) ==
    LET u == unselect(t) IN select(u, snr_mask(u, cut))

\* the TOAs object after apply_snr_cut returns
apply_snr_cut(t, cut) == select(t, snr_mask(t, cut))

\* apply_snr_cut raises when some row has no snr flag
snr_cut_raises(t) == IsRagged(get_flag_value_snr(t))

----------------------------------------------------------------------------
(* apply_mjd_cut *)

\* configDict['ignore'][key] raises KeyError when the key is missing
mjd_cut_raises(cfg) ==
    \/ "mjd-start" \notin DOMAIN cfg.ignore
    \/ "mjd-end" \notin DOMAIN cfg.ignore

select_min(t, cfg) ==
    IF Truthy(cfg.ignore["mjd-start"])
    THEN [i \in 1..Len(t.table) |-> get_mjds(t)[i] > cfg.ignore["mjd-start"][1]]
    ELSE [i \in 1..Len(t.table) |-> TRUE]

select_max(t, cfg) ==
    IF Truthy(cfg.ignore["mjd-end"])
    THEN [i \in 1..Len(t.table) |-> get_mjds(t)[i] < cfg.ignore["mjd-end"][1]]
    ELSE [i \in 1..Len(t.table) |-> TRUE]

\* select_min & select_max
mask_and(a, b) == [i \in 1..Len(a) |-> a[i] /\ b[i]]

\* the TOAs object after apply_mjd_cut returns
apply_mjd_cut(t, cfg) == select(t, mask_and(select_min(t, cfg), select_max(t, cfg)))

----------------------------------------------------------------------------
(* The cuts, called in any order on one TOAs object *)

CutMjds == {1, 2, 3}

CutSnrs == {None, Some(1), Some(2)}

SnrCuts == {1, 2}

\* a bound of the 'ignore' mapping: null, or a number
BoundValues == {None, Some(0), Some(2), Some(3)}

\* the 'ignore' mapping: each of the two keys may be missing
IgnoreMaps == UNION {[K -> BoundValues] : K \in SUBSET {"mjd-start", "mjd-end"}}

NoFiles == [n \in {} |-> ""]

\* the variables a specification does not use stay as they are here
Idle ==
    /\ restype = "prefit"
    /\ pc = "idle"
    /\ obslist = <<>>
    /\ plotted = <<>>
    /\ models = <<>>
    /\ ret = None
    /\ files = NoFiles
    /\ today = 1
    /\ env = <<>>
    /\ trace = <<>>

InitCut ==
    /\ toas \in {[table |-> t, table_selects |-> <<>>] :
                    t \in TablesOver(CutMjds, CutSnrs, {"gbt"})}
    /\ configDict \in {[ignore |-> f] : f \in IgnoreMaps}
    /\ snr_cut \in SnrCuts
    /\ applied = <<>>
    /\ Idle

\* one entry of the history of calls
Call(op, before, err, after, masks) ==
    [op |-> op, before |-> before, err |-> err, after |-> after, masks |-> masks]

\* apply_snr_cut(toas, snr_cut)
SnrCut ==
    /\ Len(applied) < MaxCuts
    /\ IF snr_cut_raises(toas)
       THEN /\ toas' = toas
            /\ applied' = Append(applied,
                   Call("snr", toas.table, "TypeError", toas.table, <<>>))
       ELSE /\ toas' = apply_snr_cut(toas, snr_cut)
            /\ applied' = Append(applied,
                   Call("snr", toas.table, "none", toas'.table,
                        <<snr_mask(toas, snr_cut)>>))
    /\ UNCHANGED <<configDict, snr_cut, restype, pc, obslist, plotted, models,
                   ret, files, today, env, trace>>

\* apply_mjd_cut(toas, configDict)
MjdCut ==
    /\ Len(applied) < MaxCuts
    /\ IF mjd_cut_raises(configDict)
       THEN /\ toas' = toas
            /\ applied' = Append(applied,
                   Call("mjd", toas.table, "KeyError", toas.table, <<>>))
       ELSE /\ toas' = apply_mjd_cut(toas, configDict)
            /\ applied' = Append(applied,
                   Call("mjd", toas.table, "none", toas'.table,
                        <<select_min(toas, configDict), select_max(toas, configDict)>>))
    /\ UNCHANGED <<configDict, snr_cut, restype, pc, obslist, plotted, models,
                   ret, files, today, env, trace>>

NextCut == SnrCut \/ MjdCut

SpecCut == InitCut /\ [][NextCut]_vars

\* the rows of a table that satisfy P, in the table's order
Filter(table, P(_)) == SelectSeq(table, P)

HasSnr(table) == \A i \in 1..Len(table) : table[i].snr # None

\* C6: after apply_snr_cut(toas, T) on a TOA set whose active rows all carry
\* an snr flag, the active rows are exactly the previously active rows with
\* snr > T; rows with snr = T or snr < T are excluded.
C6_SnrCutKeepsExactlyAbove ==
    \A k \in 1..Len(applied) :
        LET c == applied[k]
            Above(r) == r.snr[1] > snr_cut
        IN (c.op = "snr" /\ HasSnr(c.before)) =>
               /\ c.err = "none"
               /\ c.after = Filter(c.before, Above)

\* a cut has dropped a row with snr = T and kept one with snr > T
C6_Witness ==
    \E k \in 1..Len(applied) :
        LET c == applied[k] IN
        /\ c.op = "snr" /\ c.err = "none" /\ Len(c.before) = 2
        /\ \E i \in 1..2 : c.before[i].snr = Some(snr_cut)
        /\ \E i \in 1..2 : c.before[i].snr # None /\ c.before[i].snr[1] > snr_cut
        /\ Len(c.after) = 1

BoundPresent(cfg, key) == key \in DOMAIN cfg.ignore /\ cfg.ignore[key] # None

\* C4: with both bounds present, after apply_mjd_cut the active rows are
\* exactly the previously active rows with A <= mjd <= B (a row at A or at B
\* stays).
C4_ClosedWindow ==
    \A k \in 1..Len(applied) :
        LET c == applied[k]
            Within(r) == /\ configDict.ignore["mjd-start"][1] <= r.mjd
                         /\ r.mjd <= configDict.ignore["mjd-end"][1]
        IN (/\ c.op = "mjd"
            /\ BoundPresent(configDict, "mjd-start")
            /\ BoundPresent(configDict, "mjd-end")) =>
               /\ c.err = "none"
               /\ c.after = Filter(c.before, Within)

\* C5: apply_mjd_cut never fails over an absent bound (key missing or null);
\* an absent bound excludes no row on its side; a present bound, 0 included,
\* leaves no row beyond it; with both bounds absent the active rows are
\* unchanged.
C5_OptionalBounds ==
    \A k \in 1..Len(applied) :
        LET c == applied[k]
            lo == BoundPresent(configDict, "mjd-start")
            hi == BoundPresent(configDict, "mjd-end")
            A == configDict.ignore["mjd-start"][1]
            B == configDict.ignore["mjd-end"][1]
            dropped == RowSet(c.before) \ RowSet(c.after)
        IN c.op = "mjd" =>
               /\ c.err = "none"
               /\ ~lo => \A r \in dropped : hi /\ r.mjd >= B
               /\ ~hi => \A r \in dropped : lo /\ r.mjd <= A
               /\ lo => \A r \in RowSet(c.after) : r.mjd >= A
               /\ hi => \A r \in RowSet(c.after) : r.mjd <= B
               /\ (~lo /\ ~hi) => c.after = c.before

\* a row passes a cut on its own: the cut, applied to that row alone,
\* returns and keeps it
Passes(r, op) ==
    LET one == [table |-> <<r>>, table_selects |-> <<>>] IN
    IF op = "snr"
    THEN ~snr_cut_raises(one) /\ apply_snr_cut(one, snr_cut).table = <<r>>
    ELSE ~mjd_cut_raises(configDict) /\ apply_mjd_cut(one, configDict).table = <<r>>

Completed == {k \in 1..Len(applied) : applied[k].err = "none"}

----------------------------------------------------------------------------
(* plot_res *)

PlotMjds == {1, 2}

PlotSites == {"gbt", "ao"}

Restypes == {"prefit", "postfit", "postpre", "resid", ""}

\* fitter.resids_init.time_resids and fitter.resids.time_resids: one entry
\* per row of the table the fitter was built on
time_resids(kind, n) == [i \in 1..n |-> <<kind, i>>]

\* the orders in which list(a set) may enumerate the set
ListsOf(S) == {l \in [1..Cardinality(S) -> S] : Range(l) = S}

InitPlot ==
    /\ toas \in {[table |-> t, table_selects |-> <<>>] :
                    t \in TablesOver(PlotMjds, {Some(1)}, PlotSites)}
    /\ configDict = <<>>
    /\ snr_cut = 0
    /\ applied = <<>>
    /\ Idle

\* select_array = (fitter.toas.get_obss()==obso)
select_array(t, obso) == [i \in 1..Len(t.table) |-> get_obss(t)[i] = obso]

\* plt.errorbar(mjds, residuals[select_array], errors, label=obso)
errorbar(t, mask, kind, obso) ==
    [element |-> "errorbar", label |-> obso, x |-> get_mjds(t),
     y |-> Rows(time_resids(kind, Len(mask)), mask)]

\* plot_res(fitter, restype): obslist = list(fitter.toas.observatories)
PlotCall ==
    /\ pc = "idle"
    /\ restype' \in Restypes
    /\ obslist' \in ListsOf(Range(get_obss(toas)))
    /\ pc' = "loop"
    /\ UNCHANGED <<toas, configDict, snr_cut, applied, plotted, models, ret,
                   files, today, env, trace>>

\* for obso in obslist: select this observatory's rows; applied keeps
\* select_array, which the draw indexes the residuals with
PlotSelect ==
    /\ pc = "loop"
    /\ obslist # <<>>
    /\ toas' = select(toas, select_array(toas, Head(obslist)))
    /\ applied' = Append(applied, select_array(toas, Head(obslist)))
    /\ pc' = "selected"
    /\ UNCHANGED <<configDict, snr_cut, restype, obslist, plotted, models, ret,
                   files, today, env, trace>>

\* the if / elif / else on restype: draw the series, or raise ValueError
PlotDraw ==
    /\ pc = "selected"
    /\ IF InStr("pre", restype)
       THEN /\ plotted' = Append(plotted,
                   errorbar(toas, Last(applied), "Pre", Head(obslist)))
            /\ pc' = "drawn"
       ELSE IF InStr("post", restype)
       THEN /\ plotted' = Append(plotted,
                   errorbar(toas, Last(applied), "Post", Head(obslist)))
            /\ pc' = "drawn"
       ELSE /\ plotted' = plotted
            /\ pc' = "raised"
    /\ UNCHANGED <<toas, configDict, snr_cut, applied, restype, obslist, models,
                   ret, files, today, env, trace>>

\* title, labels, grid, legend; then fitter.toas.unselect()
PlotDecorate ==
    /\ pc = "drawn"
    /\ plotted' = Append(plotted, [element |-> "decoration", label |-> "",
                                  x |-> <<>>, y |-> <<>>])
    /\ toas' = unselect(toas)
    /\ obslist' = Tail(obslist)
    /\ pc' = "loop"
    /\ UNCHANGED <<configDict, snr_cut, applied, restype, models, ret, files,
                   today, env, trace>>

\* the loop is over: plot_res returns
PlotReturn ==
    /\ pc = "loop"
    /\ obslist = <<>>
    /\ pc' = "returned"
    /\ UNCHANGED <<toas, configDict, snr_cut, applied, restype, obslist, plotted,
                   models, ret, files, today, env, trace>>

NextPlot == PlotCall \/ PlotSelect \/ PlotDraw \/ PlotDecorate \/ PlotReturn

SpecPlot == InitPlot /\ [][NextPlot]_vars

\* C1: plot_res, called on an unrestricted TOA set, leaves it unrestricted
\* when the call ends, whether it returns or raises ValueError; during the
\* call at most one selection is pushed at a time.
C1_SelectionRestored ==
    /\ pc \in {"returned", "raised"} => toas.table_selects = <<>>
    /\ Len(toas.table_selects) <= 1

\* C2: with a restype that contains neither 'pre' nor 'post', plot_res ends
\* by raising ValueError, and when it raises nothing has been drawn and no
\* selection has been pushed on the TOA set.
C2_RaisesBeforeAnyWork ==
    (pc # "idle" /\ ~InStr("pre", restype) /\ ~InStr("post", restype)) =>
        /\ pc # "returned"
        /\ pc = "raised" => (plotted = <<>> /\ toas.table_selects = <<>>)

----------------------------------------------------------------------------
(* center_epochs *)

\* MJDs in a unit in which the midpoint of two TOAs is a whole number
EpochMjds == {2, 4, 6}

EpochValues == {None, Some(0)}

ModelIds == {1, 2}

TimingModels ==
    [PEPOCH : EpochValues, POSEPOCH : EpochValues, DMEPOCH : EpochValues]

InitEpoch ==
    /\ toas \in {[table |-> t, table_selects |-> <<>>] :
                    t \in TablesOver(EpochMjds, {Some(1), Some(2)}, {"gbt"})}
    /\ configDict = <<>>
    /\ snr_cut = 1
    /\ applied = <<>>
    /\ restype = "prefit"
    /\ pc = "idle"
    /\ obslist = <<>>
    /\ plotted = <<>>
    /\ models \in {<<m, [PEPOCH |-> Some(0), POSEPOCH |-> Some(0), DMEPOCH |-> None]>> :
                      m \in TimingModels}
    /\ ret = None
    /\ files = NoFiles
    /\ today = 1
    /\ env = <<>>
    /\ trace = <<>>

midmjd_unrestricted(t) ==
    (Max(Range([i \in 1..Len(Unrestricted(t)) |-> Unrestricted(t)[i].mjd]))
        + Min(Range([i \in 1..Len(Unrestricted(t)) |-> Unrestricted(t)[i].mjd]))) \div 2

\* midmjd=(toas.get_mjds().value.max()+toas.get_mjds().value.min())/2.
midmjd(t) == (Max(Range(get_mjds(t))) + Min(Range(get_mjds(t)))) \div 2

\* model.change_pepoch(midmjd); it raises when the model has no PEPOCH
change_pepoch(mo, epoch) == [mo EXCEPT !.PEPOCH = Some(epoch)]

\* try: model.change_posepoch(midmjd) / except: pass
try_change_posepoch(mo, epoch) ==
    IF mo.POSEPOCH = None THEN mo ELSE [mo EXCEPT !.POSEPOCH = Some(epoch)]

\* try: model.change_dmepoch(midmjd) / except: pass
try_change_dmepoch(mo, epoch) ==
    IF mo.DMEPOCH = None THEN mo ELSE [mo EXCEPT !.DMEPOCH = Some(epoch)]

\* the model after center_epochs returns
center_epochs(mo, t) ==
    try_change_dmepoch(
        try_change_posepoch(change_pepoch(mo, midmjd(t)), midmjd(t)), midmjd(t))

\* max() of an empty array raises; change_pepoch raises without a PEPOCH
center_epochs_raises(mo, t) ==
    IF t.table = <<>> THEN "ValueError"
    ELSE IF mo.PEPOCH = None THEN "change_pepoch"
    ELSE "none"

EpochCall(m, err) ==
    [model |-> m, mjds |-> get_mjds(toas), before |-> models[m], err |-> err]

\* center_epochs(model, toas), on either model object
CenterEpochs ==
    /\ Len(trace) < MaxCalls
    /\ \E m \in ModelIds :
           LET err == center_epochs_raises(models[m], toas) IN
           /\ trace' = Append(trace, EpochCall(m, err))
           /\ IF err = "none"
              THEN /\ models' = [models EXCEPT ![m] = center_epochs(models[m], toas)]
                   /\ ret' = Some(m)
              ELSE /\ models' = models
                   /\ ret' = None
    /\ UNCHANGED <<toas, configDict, snr_cut, applied, restype, pc, obslist,
                   plotted, files, today, env>>

\* the caller cuts the TOA set before centring the epochs
EpochSnrCut ==
    /\ Len(applied) < MaxCuts
    /\ toas' = apply_snr_cut(toas, snr_cut)
    /\ applied' = Append(applied, "snr")
    /\ UNCHANGED <<configDict, snr_cut, restype, pc, obslist, plotted, models,
                   ret, files, today, env, trace>>

NextEpoch == CenterEpochs \/ EpochSnrCut

SpecEpoch == InitEpoch /\ [][NextEpoch]_vars

\* C7: on a model with a PEPOCH and a non-empty TOA set, center_epochs sets
\* PEPOCH to (t_min + t_max)/2 of the active rows, sets POSEPOCH and DMEPOCH
\* to that value exactly when the field was already there, leaves an absent
\* field absent without raising, and returns the model object it was given.
C7_EpochsCentred ==
    trace # <<>> =>
        LET c == Last(trace)
            mo == models[c.model]
            span == Max(Range(c.mjds)) + Min(Range(c.mjds))
            Centred(now, was) == IF was = None THEN now = None
                                 ELSE now # None /\ 2 * now[1] = span
        IN (c.before.PEPOCH # None /\ c.mjds # <<>>) =>
               /\ c.err = "none"
               /\ mo.PEPOCH # None /\ 2 * mo.PEPOCH[1] = span
               /\ Centred(mo.POSEPOCH, c.before.POSEPOCH)
               /\ Centred(mo.DMEPOCH, c.before.DMEPOCH)
               /\ ret = Some(c.model)

\* a model without POSEPOCH but with DMEPOCH was centred on a TOA set whose
\* first and last TOA differ
C7_Witness ==
    /\ trace # <<>>
    /\ Last(trace).err = "none"
    /\ Last(trace).before.POSEPOCH = None
    /\ Last(trace).before.DMEPOCH # None
    /\ Cardinality(Range(Last(trace).mjds)) = 2
    /\ models[Last(trace).model].POSEPOCH = None
    /\ models[Last(trace).model].DMEPOCH = Some(4)
    /\ ret = Some(Last(trace).model)

----------------------------------------------------------------------------
(* Files of the working directory *)

open_a(fs, name) ==
    [n \in DOMAIN fs \cup {name} |-> IF n \in DOMAIN fs THEN fs[n] ELSE ""]

\* open(name, 'w'): the file exists and is empty
open_w(fs, name) ==
    [n \in DOMAIN fs \cup {name} |-> IF n = name THEN "" ELSE fs[n]]

\* f.write(text)
write(fs, name, text) == [fs EXCEPT ![name] = fs[name] \o text]

\* the lines of text[i..], after the complete lines 'done' and the
\* characters 'line' of the line being read
RECURSIVE SplitFrom(_, _, _, _)
SplitFrom(text, i, done, line) ==
    IF i > Len(text) THEN (IF line = "" THEN done ELSE Append(done, line))
    ELSE IF SubSeq(text, i, i) = "\n" THEN SplitFrom(text, i + 1, Append(done, line), "")
    ELSE SplitFrom(text, i + 1, done, line \o SubSeq(text, i, i))

\* the lines of a text: each ends at a newline, a last one at the end
SplitLines(text) == SplitFrom(text, 1, <<>>, "")

----------------------------------------------------------------------------
(* write_par *)

Sources == {"J0000+0000", "B1937+21"}

Suffixes == {"", "_v2"}

ParTexts == {"F0 1.0\n", "F0 2.0\n"}

\* the days on which write_par may run
Dates == <<[year |-> 2020, month |-> 1, day |-> 9],
           [year |-> 2020, month |-> 1, day |-> 10],
           [year |-> 2020, month |-> 11, day |-> 1]>>

Digit == <<"0", "1", "2", "3", "4", "5", "6", "7", "8", "9">>

\* '%0<width>d' % n
RECURSIVE ZeroPadded(_, _)
ZeroPadded(n, width) ==
    IF width = 0 THEN ""
    ELSE ZeroPadded(n \div 10, width - 1) \o Digit[(n % 10) + 1]

\* date.strftime('%Y%m%d')
strftime_Ymd(d) ==
    ZeroPadded(d.year, 4) \o ZeroPadded(d.month, 2) \o ZeroPadded(d.day, 2)

\* date_str = date.today().strftime('%Y%m%d')
date_str == strftime_Ymd(Dates[today])

outfile_without_addext(source, addext) == source \o "_PINT_" \o date_str \o ".par"

\* outfile = '%s_PINT_%s%s.par' % (source,date_str,addext)
outfile(source, addext) == source \o "_PINT_" \o date_str \o addext \o ".par"

\* the working directory after write_par(fitter, addext)
write_par(fs, fitter, addext) ==
    write(open_w(fs, outfile(fitter.PSR, addext)),
          outfile(fitter.PSR, addext), fitter.as_parfile)

InitPar ==
    /\ toas = [table |-> <<>>, table_selects |-> <<>>]
    /\ configDict = <<>>
    /\ snr_cut = 0
    /\ applied = <<>>
    /\ restype = "prefit"
    /\ pc = "idle"
    /\ obslist = <<>>
    /\ plotted = <<>>
    /\ models = <<>>
    /\ ret = None
    /\ files = NoFiles
    /\ today = 1
    /\ env = <<>>
    /\ trace = <<>>

\* write_par(fitter, addext), for any fitter and suffix
WritePar ==
    /\ Len(trace) < MaxCalls
    /\ \E psr \in Sources, text \in ParTexts, addext \in Suffixes :
           /\ files' = write_par(files, [PSR |-> psr, as_parfile |-> text], addext)
           /\ trace' = Append(trace, [source |-> psr, day |-> today, addext |-> addext,
                                     text |-> text, outfile |-> outfile(psr, addext)])
    /\ UNCHANGED <<toas, configDict, snr_cut, applied, restype, pc, obslist,
                   plotted, models, ret, today, env>>

\* midnight passes
NextDay ==
    /\ today < Len(Dates)
    /\ today' = today + 1
    /\ UNCHANGED <<toas, configDict, snr_cut, applied, restype, pc, obslist,
                   plotted, models, ret, files, env, trace>>

NextPar == WritePar \/ NextDay

SpecPar == InitPar /\ [][NextPar]_vars

\* the eight digits of each day of Dates
YYYYMMDD == <<"20200109", "20200110", "20201101">>

SameSourceAndDay(a, b) == a.source = b.source /\ a.day = b.day

\* C8: write_par writes '<source>_PINT_<YYYYMMDD><suffix>.par'.  Among the
\* calls made on one day for one source, calls with different suffixes leave
\* distinct files, calls with the same suffix leave one file, and each file
\* holds the parameter text of the latest call that wrote it.
C8_WriteParFiles ==
    /\ \A i \in 1..Len(trace) :
           LET c == trace[i]
               same == {k \in 1..Len(trace) :
                           SameSourceAndDay(trace[k], c) /\ trace[k].addext = c.addext}
           IN /\ c.outfile = c.source \o "_PINT_" \o YYYYMMDD[c.day] \o c.addext \o ".par"
              /\ c.outfile \in DOMAIN files
              /\ files[c.outfile] = trace[Max(same)].text
    /\ \A i, j \in 1..Len(trace) :
           SameSourceAndDay(trace[i], trace[j]) =>
               (trace[i].outfile = trace[j].outfile <=> trace[i].addext = trace[j].addext)

\* on one day, for one source: two calls with the same suffix and different
\* texts, and a third with another suffix
C8_Witness ==
    /\ Len(trace) = 3
    /\ \A i \in 1..3 : SameSourceAndDay(trace[i], trace[1])
    /\ trace[1].addext = trace[2].addext
    /\ trace[1].text # trace[2].text
    /\ trace[3].addext # trace[1].addext
    /\ Cardinality(DOMAIN files) = 2
    /\ today = 3

----------------------------------------------------------------------------
(* write_include_tim *)

\* out_tim = '%s.tim' % (source)
out_tim(source) == source \o ".tim"

\* for tf in tim_file_list: f.write('INCLUDE %s\n' % (tf))
write_includes(fs, name, tim_file_list) ==
    LET F[i \in 0..Len(tim_file_list)] ==
            IF i = 0 THEN fs
            ELSE write(F[i-1], name, "INCLUDE " \o tim_file_list[i] \o "\n")
    IN F[Len(tim_file_list)]

write_include_tim_appending(fs, source, tim_file_list) ==
    write_includes(open_a(fs, out_tim(source)), out_tim(source), tim_file_list)

\* the working directory after write_include_tim(source, tim_file_list)
write_include_tim(fs, source, tim_file_list) ==
    write_includes(open_w(fs, out_tim(source)), out_tim(source), tim_file_list)

----------------------------------------------------------------------------
(* load_and_check and check_fit *)

TimDirectories == {"./tim/", ""}

TimNames == {"a.tim", "b.tim"}

\* what is left in the manifest by an earlier run, if anything
StaleManifest == "INCLUDE old/x.tim\nINCLUDE old/y.tim\nINCLUDE old/z.tim\n"

LoadConfigs ==
    {("source" :> s) @@ ("tim-directory" :> d) @@ ("toas" :> l) :
        s \in {"J0000+0000"}, d \in TimDirectories, l \in SeqsUpTo(TimNames, MaxFiles)}

\* what the toolkit and the checks of par_checker find: whether the TOA
\* files parse, whether each check passes, and the astrometry of the par file
Environments ==
    [parses : BOOLEAN, ephem : BOOLEAN, bipm : BOOLEAN, name : BOOLEAN,
     jumps : BOOLEAN, spin : BOOLEAN, astrometry : BOOLEAN,
     equatorial : BOOLEAN, stale : BOOLEAN]

InitLoad ==
    /\ toas = [table |-> <<>>, table_selects |-> <<>>]
    /\ configDict \in LoadConfigs
    /\ snr_cut = 0
    /\ applied = <<>>
    /\ restype = "prefit"
    /\ pc = "idle"
    /\ obslist = <<>>
    /\ plotted = <<>>
    /\ models = <<>>
    /\ ret = None
    /\ env \in Environments
    /\ files = IF env.stale
               THEN (out_tim(configDict["source"]) :> StaleManifest)
               ELSE NoFiles
    /\ today = 1
    /\ trace = <<>>

\* tim_files = [tim_path+tf for tf in configDict['toas']]
tim_files(cfg) ==
    [i \in 1..Len(cfg["toas"]) |-> cfg["tim-directory"] \o cfg["toas"][i]]

\* pc.check_ephem(to), pc.check_bipm(to), pc.check_name(mo),
\* pc.check_jumps(mo, receivers), pc.check_spin(model),
\* pc.check_astrometry(model): each returns, or raises
check_passes(check, e) ==
    CASE check = "check_ephem" -> e.ephem
      [] check = "check_bipm" -> e.bipm
      [] check = "check_name" -> e.name
      [] check = "check_jumps" -> e.jumps
      [] check = "check_spin" -> e.spin
      [] check = "check_astrometry" -> e.astrometry

\* models.get_model(par_path+configDict['timing-model'])
get_model(e) ==
    [components |-> IF e.equatorial THEN {"Spindown", "AstrometryEquatorial"}
                    ELSE {"Spindown", "AstrometryEcliptic"}]

\* model_equatorial_to_ecliptic(mo)
model_equatorial_to_ecliptic(mo) ==
    [components |-> (mo.components \ {"AstrometryEquatorial"})
                        \cup {"AstrometryEcliptic"}]

after_step_model_first(step, mo) ==
    CASE step = "write_include_tim" -> "get_TOAs"
      [] step = "get_TOAs" -> "get_model"
      [] step = "get_model" ->
            IF "AstrometryEquatorial" \in mo.components
            THEN "model_equatorial_to_ecliptic" ELSE "check_ephem"
      [] step = "model_equatorial_to_ecliptic" -> "check_ephem"
      [] step = "check_ephem" -> "check_bipm"
      [] step = "check_bipm" -> "check_name"
      [] step = "check_name" -> "check_jumps"
      [] step = "check_jumps" -> "returned"

\* the statement of load_and_check that follows a step that did not raise;
\* mo is the model once it is loaded
after_step(step, mo) ==
    CASE step = "write_include_tim" -> "get_TOAs"
      [] step = "get_TOAs" -> "check_ephem"
      [] step = "check_ephem" -> "check_bipm"
      [] step = "check_bipm" -> "get_model"
      [] step = "get_model" ->
            IF "AstrometryEquatorial" \in mo.components
            THEN "model_equatorial_to_ecliptic" ELSE "check_name"
      [] step = "model_equatorial_to_ecliptic" -> "check_name"
      [] step = "check_name" -> "check_jumps"
      [] step = "check_jumps" -> "returned"

\* a step of load_and_check runs: it returns and the call goes on, or it
\* raises and the call is over
LoadStep(step, passes, mo) ==
    /\ pc = step
    /\ trace' = Append(trace, step)
    /\ pc' = IF passes THEN after_step(step, mo) ELSE "raised"

\* load_and_check(configDict): the manifest is written
LoadWriteManifest ==
    /\ pc = "idle"
    /\ trace' = Append(trace, "write_include_tim")
    /\ files' = write_include_tim(files, configDict["source"], tim_files(configDict))
    /\ pc' = after_step("write_include_tim", <<>>)
    /\ UNCHANGED <<toas, configDict, snr_cut, applied, restype, obslist, plotted,
                   models, ret, today, env>>

\* to = toa.get_TOAs(tim_filename, ...)
LoadGetTOAs ==
    /\ LoadStep("get_TOAs", env.parses, <<>>)
    /\ UNCHANGED <<toas, configDict, snr_cut, applied, restype, obslist, plotted,
                   models, ret, files, today, env>>

LoadCheckEphem ==
    /\ LoadStep("check_ephem", check_passes("check_ephem", env), models)
    /\ UNCHANGED <<toas, configDict, snr_cut, applied, restype, obslist, plotted,
                   models, ret, files, today, env>>

LoadCheckBipm ==
    /\ LoadStep("check_bipm", check_passes("check_bipm", env), models)
    /\ UNCHANGED <<toas, configDict, snr_cut, applied, restype, obslist, plotted,
                   models, ret, files, today, env>>

\* receivers = set(...); mo = models.get_model(...)
LoadGetModel ==
    /\ LoadStep("get_model", TRUE, get_model(env))
    /\ models' = get_model(env)
    /\ UNCHANGED <<toas, configDict, snr_cut, applied, restype, obslist, plotted,
                   ret, files, today, env>>

\* if 'AstrometryEquatorial' in mo.components: model_equatorial_to_ecliptic(mo)
LoadConvert ==
    /\ LoadStep("model_equatorial_to_ecliptic", TRUE, models)
    /\ models' = model_equatorial_to_ecliptic(models)
    /\ UNCHANGED <<toas, configDict, snr_cut, applied, restype, obslist, plotted,
                   ret, files, today, env>>

LoadCheckName ==
    /\ LoadStep("check_name", check_passes("check_name", env), models)
    /\ UNCHANGED <<toas, configDict, snr_cut, applied, restype, obslist, plotted,
                   models, ret, files, today, env>>

\* pc.check_jumps(mo,receivers); return to, mo
LoadCheckJumps ==
    /\ LoadStep("check_jumps", check_passes("check_jumps", env), models)
    /\ ret' = IF check_passes("check_jumps", env) THEN Some(<<"to", "mo">>) ELSE None
    /\ UNCHANGED <<toas, configDict, snr_cut, applied, restype, obslist, plotted,
                   models, files, today, env>>

\* check_fit(fitter), on a fitter built from what load_and_check returned
CheckFit ==
    /\ pc = "returned"
    /\ IF ~check_passes("check_spin", env)
       THEN /\ trace' = Append(trace, "check_spin")
            /\ pc' = "fit_raised"
       ELSE /\ trace' = trace \o <<"check_spin", "check_astrometry">>
            /\ pc' = IF check_passes("check_astrometry", env)
                     THEN "fit_checked" ELSE "fit_raised"
    /\ UNCHANGED <<toas, configDict, snr_cut, applied, restype, obslist, plotted,
                   models, ret, files, today, env>>

NextLoad ==
    \/ LoadWriteManifest
    \/ LoadGetTOAs
    \/ LoadCheckEphem
    \/ LoadCheckBipm
    \/ LoadGetModel
    \/ LoadConvert
    \/ LoadCheckName
    \/ LoadCheckJumps
    \/ CheckFit

SpecLoad == InitLoad /\ [][NextLoad]_vars

\* C3: the manifest '<source>.tim' holds exactly one line per TOA file, the
\* i-th being 'INCLUDE ' and the i-th path, the tim-directory followed by the
\* i-th entry of 'toas'; what the file held before is gone.
C3_ManifestLines ==
    pc # "idle" =>
        /\ (configDict["source"] \o ".tim") \in DOMAIN files
        /\ SplitLines(files[configDict["source"] \o ".tim"]) =
               [i \in 1..Len(configDict["toas"]) |->
                   "INCLUDE " \o configDict["tim-directory"] \o configDict["toas"][i]]

\* a manifest of two different files in a directory replaced a stale one
C3_Witness ==
    /\ pc = "returned"
    /\ env.stale
    /\ configDict["toas"] = <<"b.tim", "a.tim">>
    /\ configDict["tim-directory"] = "./tim/"
    /\ files[configDict["source"] \o ".tim"] = "INCLUDE ./tim/b.tim\nINCLUDE ./tim/a.tim\n"

\* the statements of load_and_check, in the order the claim gives
LoadOrder ==
    <<"write_include_tim", "get_TOAs", "check_ephem", "check_bipm", "get_model",
      "model_equatorial_to_ecliptic", "check_name", "check_jumps">>

\* the conversion runs only on an equatorial model
Planned ==
    SelectSeq(LoadOrder, LAMBDA st : st = "model_equatorial_to_ecliptic" => env.equatorial)

Fails(st) ==
    \/ st = "get_TOAs" /\ ~env.parses
    \/ st = "check_ephem" /\ ~env.ephem
    \/ st = "check_bipm" /\ ~env.bipm
    \/ st = "check_name" /\ ~env.name
    \/ st = "check_jumps" /\ ~env.jumps

\* the planned statements up to the first that fails
Expected ==
    SubSeq(Planned, 1,
           Min({i \in 1..Len(Planned) : Fails(Planned[i])} \cup {Len(Planned)}))

FitChecks == {"check_spin", "check_astrometry"}

\* C10: load_and_check runs write manifest, parse TOAs, ephemeris check,
\* clock check, load model, conversion (equatorial models only), name check,
\* jump check, in that order; the first failure ends the call, so nothing
\* later runs (no model is loaded after a failed ephemeris or clock check);
\* the pair is returned only when all four checks passed; the spin and
\* astrometry checks run only in check_fit.
C10_LoadOrder ==
    /\ \A i \in 1..Len(trace) : i <= Len(Expected) => trace[i] = Expected[i]
    /\ pc \notin {"returned", "fit_checked", "fit_raised"} =>
           /\ Len(trace) <= Len(Expected)
           /\ Range(trace) \cap FitChecks = {}
           /\ ret = None
    /\ pc = "raised" => (trace = Expected /\ Fails(Last(trace)))
    /\ pc \in {"returned", "fit_checked", "fit_raised"} =>
           /\ SubSeq(trace, 1, Len(Expected)) = Expected
           /\ Expected = Planned
           /\ env.ephem /\ env.bipm /\ env.name /\ env.jumps
           /\ ret # None
           /\ \A i \in (Len(Expected) + 1)..Len(trace) : trace[i] \in FitChecks
    /\ pc = "returned" => trace = Expected
    /\ (~env.ephem \/ ~env.bipm) =>
           /\ models = <<>>
           /\ "get_model" \notin Range(trace)
           /\ "model_equatorial_to_ecliptic" \notin Range(trace)

\* the clock check has failed on an equatorial par file: the call is over
\* after four statements, with no model loaded
C10_Witness ==
    /\ pc = "raised"
    /\ env.ephem /\ ~env.bipm /\ env.equatorial
    /\ trace = <<"write_include_tim", "get_TOAs", "check_ephem", "check_bipm">>
    /\ models = <<>>

====
